---- MODULE Spec2Model ----
(***************************************************************************)
(* InsightStream (app.py): the Analyze handler, the prompt-injection       *)
(* guard, the Gemini response parser, the generated-code sanitizer and the *)
(* exec-based executor.                                                    *)
(*                                                                         *)
(* Text is a sequence of one-character strings, so that the regular        *)
(* expressions of the source are evaluated character by character.         *)
(***************************************************************************)
EXTENDS Integers, Sequences, FiniteSets, TLC

\* ------------------------------------------------------------------------
\* Bounds
\* ------------------------------------------------------------------------
\* number of vocabulary pieces a typed question is made of
MaxWords == 2
\* number of statements of a generated program
MaxStmts == 2
\* nesting depth of the df[...] accesses given to the sanitizer alone
MaxDepth == 2
\* number of successive applications of the sanitizer
MaxPasses == 2

\* ------------------------------------------------------------------------
\* Text helpers
\* ------------------------------------------------------------------------
RECURSIVE Flatten(_)
\* concatenation of a sequence of texts
Flatten(ss) ==
    IF ss = <<>> THEN <<>> ELSE Head(ss) \o Flatten(Tail(ss))

\* sequences over S of length 0..n
SeqUpTo(S, n) == UNION { [1..k -> S] : k \in 0..n }

\* does text lit occur in text s at position i
LitAt(s, i, lit) ==
    /\ i >= 1
    /\ i + Len(lit) - 1 <= Len(s)
    /\ \A k \in 1..Len(lit) : s[i + k - 1] = lit[k]

\* characters matched by \s and removed by strip(), among those the texts
\* of the model are written with
Whitespace == {" ", "\t", "\n", "\r", "\f"}

UpperToLower ==
    [c \in {"A","B","C","D","E","F","G","H","I","J","K","L","M","N","O","P",
            "Q","R","S","T","U","V","W","X","Y","Z"} |->
        CASE c = "A" -> "a" [] c = "B" -> "b" [] c = "C" -> "c" [] c = "D" -> "d"
          [] c = "E" -> "e" [] c = "F" -> "f" [] c = "G" -> "g" [] c = "H" -> "h"
          [] c = "I" -> "i" [] c = "J" -> "j" [] c = "K" -> "k" [] c = "L" -> "l"
          [] c = "M" -> "m" [] c = "N" -> "n" [] c = "O" -> "o" [] c = "P" -> "p"
          [] c = "Q" -> "q" [] c = "R" -> "r" [] c = "S" -> "s" [] c = "T" -> "t"
          [] c = "U" -> "u" [] c = "V" -> "v" [] c = "W" -> "w" [] c = "X" -> "x"
          [] c = "Y" -> "y" [] c = "Z" -> "z"]

\* str.lower()
lower(s) ==
    [i \in 1..Len(s) |-> IF s[i] \in DOMAIN UpperToLower THEN UpperToLower[s[i]] ELSE s[i]]

\* str.strip() leaves nothing: the text is empty or all whitespace
IsBlank(s) == \A i \in 1..Len(s) : s[i] \in Whitespace

\* ------------------------------------------------------------------------
\* PROMPT-INJECTION DEFENSE
\* ------------------------------------------------------------------------
\* A pattern is a sequence of elements: a one-character string is that
\* literal character (an escaped "\(" is the literal "("), ".*" is any run of
\* characters other than newline, "\\s+" is one or more whitespace characters.
INJECTION_PATTERNS ==
    << <<"i","g","n","o","r","e"," ",".*"," ","i","n","s","t","r","u","c","t","i","o","n">>,
       <<"d","i","s","r","e","g","a","r","d"," ",".*"," ","r","u","l","e","s">>,
       <<"s","y","s","t","e","m"," ","p","r","o","m","p","t">>,
       <<"i","m","p","o","r","t","\\s+">>,
       <<"e","x","e","c","(">>,
       <<"e","v","a","l","(">>,
       <<"s","u","b","p","r","o","c","e","s","s">>,
       <<"o","p","e","n","(">>,
       <<"_","_">>,
       <<"p","i","p"," ","i","n","s","t","a","l","l">> >>

RECURSIVE MatchFrom(_, _, _, _)
\* can elements k.. of pattern p match text s starting at position i
MatchFrom(p, k, s, i) ==
    IF k > Len(p) THEN TRUE
    ELSE IF p[k] = ".*" THEN
        \/ MatchFrom(p, k + 1, s, i)
        \/ (i <= Len(s) /\ s[i] # "\n" /\ MatchFrom(p, k, s, i + 1))
    ELSE IF p[k] = "\\s+" THEN
        /\ i <= Len(s)
        /\ s[i] \in Whitespace
        /\ (MatchFrom(p, k, s, i + 1) \/ MatchFrom(p, k + 1, s, i + 1))
    ELSE
        /\ i <= Len(s)
        /\ s[i] = p[k]
        /\ MatchFrom(p, k + 1, s, i + 1)

\* re.search(p, s) finds a match
re_search(p, s) == \E i \in 1..(Len(s) + 1) : MatchFrom(p, 1, s, i)

\* the guard without case folding
is_prompt_injection_cased(query) ==
    \E n \in 1..Len(INJECTION_PATTERNS) : re_search(INJECTION_PATTERNS[n], query)

is_prompt_injection(query) ==
    LET q == lower(query)
    IN  \E n \in 1..Len(INJECTION_PATTERNS) : re_search(INJECTION_PATTERNS[n], q)

\* ------------------------------------------------------------------------
\* SANITIZE GENERATED CODE
\* ------------------------------------------------------------------------
DfOpen == <<"d","f","[">>

RECURSIVE SkipWs(_, _)
\* first position at or after i that holds no whitespace (greedy \s*)
SkipWs(s, i) ==
    IF i <= Len(s) /\ s[i] \in Whitespace THEN SkipWs(s, i + 1) ELSE i

\* df\[\s*{col}\s*\] matched at i: the position after the match, 0 if none
ColMatchEnd(s, i, col) ==
    IF ~LitAt(s, i, DfOpen) THEN 0
    ELSE LET a == SkipWs(s, i + 3)
         IN  IF ~LitAt(s, a, col) THEN 0
             ELSE LET b == SkipWs(s, a + Len(col))
                  IN  IF b <= Len(s) /\ s[b] = "]" THEN b + 1 ELSE 0

RECURSIVE SubCol(_, _, _)
\* re.sub(rf"df\[\s*{col}\s*\]", f"df['{col}']", s) from position i on
SubCol(s, i, col) ==
    IF i > Len(s) THEN <<>>
    ELSE LET e == ColMatchEnd(s, i, col)
         IN  IF e # 0
             THEN DfOpen \o <<"'">> \o col \o <<"'", "]">> \o SubCol(s, e, col)
             ELSE <<s[i]>> \o SubCol(s, i + 1, col)

RECURSIVE FirstClose(_, _)
\* position of the first "]" at or after i, 0 if none
FirstClose(s, i) ==
    IF i > Len(s) THEN 0
    ELSE IF s[i] = "]" THEN i ELSE FirstClose(s, i + 1)

\* df\[(?!['\"])([^\]]+)\] matched at i: the position of the closing "]",
\* 0 if none
GenericMatchClose(s, i) ==
    IF ~LitAt(s, i, DfOpen) THEN 0
    ELSE IF i + 3 > Len(s) THEN 0
    ELSE IF s[i + 3] \in {"'", "\""} THEN 0
    ELSE LET j == FirstClose(s, i + 3)
         IN  IF j > i + 3 THEN j ELSE 0

RECURSIVE SubGeneric(_, _)
\* re.sub(r"df\[(?!['\"])([^\]]+)\]", r"df['\1']", s) from position i on
SubGeneric(s, i) ==
    IF i > Len(s) THEN <<>>
    ELSE LET j == GenericMatchClose(s, i)
         IN  IF j # 0
             THEN DfOpen \o <<"'">> \o SubSeq(s, i + 3, j - 1) \o <<"'", "]">>
                    \o SubGeneric(s, j + 1)
             ELSE <<s[i]>> \o SubGeneric(s, i + 1)

RECURSIVE SubColumns(_, _)
\* the loop over the columns, in order
SubColumns(code, columns) ==
    IF columns = <<>> THEN code
    ELSE SubColumns(SubCol(code, 1, Head(columns)), Tail(columns))

sanitize_generated_code(code, columns) ==
    SubGeneric(SubColumns(code, columns), 1)

\* ------------------------------------------------------------------------
\* Datasets (pd.read_csv of the uploaded file)
\* ------------------------------------------------------------------------
Sales == <<"S","a","l","e","s">>
Revenue == <<"R","e","v","e","n","u","e">>
Region == <<"R","e","g","i","o","n">>
Date == <<"D","a","t","e">>

\* a dataframe: its ordered column names, which of them are numeric, and
\* which of the others hold at least one value that parses as a date
Datasets ==
    { [columns |-> <<Sales, Revenue>>, numeric |-> {Sales, Revenue}, dated |-> {}],
      [columns |-> <<Date, Sales>>, numeric |-> {Sales}, dated |-> {Date}],
      [columns |-> <<Region>>, numeric |-> {}, dated |-> {}] }

\* df.columns.tolist()
ColumnList(d) == d.columns

\* ------------------------------------------------------------------------
\* Generated programs: Python source text and what it compiles to
\* ------------------------------------------------------------------------
SrcChartQuoted == <<"f","i","g","=","p","x",".","b","a","r","(","d","f","[","'","S","a","l","e","s","'","]",")">>
SrcChartBare == <<"f","i","g","=","p","x",".","b","a","r","(","d","f","[","R","e","v","e","n","u","e","]",")">>
SrcChartBareQuoted == <<"f","i","g","=","p","x",".","b","a","r","(","d","f","[","'","R","e","v","e","n","u","e","'","]",")">>
SrcTable == <<"r","e","s","u","l","t","_","d","f","=","d","f",".","h","e","a","d","(",")">>
SrcNotAFigure == <<"f","i","g","=","1">>
SrcOpen == <<"x","=","o","p","e","n">>
SrcRaise == <<"r","a","i","s","e"," ","V","a","l","u","e","E","r","r","o","r">>
SrcExit == <<"r","a","i","s","e"," ","S","y","s","t","e","m","E","x","i","t">>

\* the statements a generated program is written with
SourceLines ==
    {SrcChartQuoted, SrcChartBare, SrcTable, SrcNotAFigure, SrcOpen, SrcRaise, SrcExit}

\* What each statement does when Python runs it: the names it looks up, the
\* columns it indexes df with, and the name it binds to which kind of value;
\* or the exception it raises.
StatementOf(line) ==
    CASE line = SrcChartQuoted ->
            [op |-> "assign", target |-> "fig", names |-> {"px", "df"},
             cols |-> {Sales}, value |-> "Figure", exc |-> "none"]
      [] line = SrcChartBare ->
            [op |-> "assign", target |-> "fig", names |-> {"px", "df", "Revenue"},
             cols |-> {}, value |-> "Figure", exc |-> "none"]
      [] line = SrcChartBareQuoted ->
            [op |-> "assign", target |-> "fig", names |-> {"px", "df"},
             cols |-> {Revenue}, value |-> "Figure", exc |-> "none"]
      [] line = SrcTable ->
            [op |-> "assign", target |-> "result_df", names |-> {"df"},
             cols |-> {}, value |-> "DataFrame", exc |-> "none"]
      [] line = SrcNotAFigure ->
            [op |-> "assign", target |-> "fig", names |-> {},
             cols |-> {}, value |-> "int", exc |-> "none"]
      [] line = SrcOpen ->
            [op |-> "assign", target |-> "x", names |-> {"open"},
             cols |-> {}, value |-> "builtin", exc |-> "none"]
      [] line = SrcRaise ->
            [op |-> "raise", target |-> "", names |-> {"ValueError"},
             cols |-> {}, value |-> "", exc |-> "Exception"]
      [] line = SrcExit ->
            [op |-> "raise", target |-> "", names |-> {"SystemExit"},
             cols |-> {}, value |-> "", exc |-> "SystemExit"]

KnownLines == SourceLines \cup {SrcChartBareQuoted}

RECURSIVE SplitLines(_)
\* the lines of a source text
SplitLines(text) ==
    LET nl == { i \in 1..Len(text) : text[i] = "\n" }
    IN  IF nl = {} THEN <<text>>
        ELSE LET i == CHOOSE k \in nl : \A m \in nl : k <= m
             IN  <<SubSeq(text, 1, i - 1)>> \o SplitLines(SubSeq(text, i + 1, Len(text)))

RECURSIVE JoinLines(_)
\* a program's text: its lines separated by newlines
JoinLines(lines) ==
    IF lines = <<>> THEN <<>>
    ELSE IF Len(lines) = 1 THEN lines[1]
    ELSE Head(lines) \o <<"\n">> \o JoinLines(Tail(lines))

\* compile(): the statements of a source text, or a SyntaxError when a line
\* is not a statement
CompileOK(text) == \A i \in 1..Len(SplitLines(text)) : SplitLines(text)[i] \in KnownLines

Compile(text) ==
    [i \in 1..Len(SplitLines(text)) |-> StatementOf(SplitLines(text)[i])]

\* names of the builtins module
BuiltinNames ==
    {"open", "__import__", "eval", "exec", "exit", "ValueError", "SystemExit"}

\* exec(code, globals, locals): when globals has no "__builtins__" key, a
\* reference to the builtins module is inserted under that key
ExecGlobals(globals) ==
    IF "__builtins__" \in globals THEN globals ELSE globals \cup {"__builtins__"}

\* name lookup in executed code: locals, then globals, then builtins
Resolves(name, env, globals) ==
    \/ name \in DOMAIN env
    \/ name \in globals
    \/ ("__builtins__" \in globals /\ name \in BuiltinNames)

RECURSIVE RunStatements(_, _, _, _)
\* run the statements in order in namespace env; reached collects the names
\* the code resolved. Stops at the first raised exception.
RunStatements(stmts, env, globals, reached) ==
    IF stmts = <<>> THEN [env |-> env, reached |-> reached, exc |-> "none"]
    ELSE LET st == Head(stmts)
             found == { n \in st.names : Resolves(n, env, globals) }
         IN  IF found # st.names
             THEN [env |-> env, reached |-> reached \cup found, exc |-> "Exception"]
             ELSE IF st.op = "raise"
             THEN [env |-> env, reached |-> reached \cup found, exc |-> st.exc]
             ELSE IF \E c \in st.cols :
                        \A k \in 1..Len(env["df"].columns) : env["df"].columns[k] # c
             THEN [env |-> env, reached |-> reached \cup found, exc |-> "Exception"]
             ELSE RunStatements(Tail(stmts),
                      [n \in DOMAIN env \cup {st.target} |->
                          IF n = st.target THEN [kind |-> st.value, columns |-> <<>>]
                          ELSE env[n]],
                      globals, reached \cup found)

\* ------------------------------------------------------------------------
\* JSON values and the model's raw reply
\* ------------------------------------------------------------------------
\* a JSON value: null, a string (its text in s), a number, or a list of
\* strings (in items)
JNull == [t |-> "null", s |-> <<>>, items |-> <<>>]
JStr(text) == [t |-> "str", s |-> text, items |-> <<>>]
JNum(digits) == [t |-> "num", s |-> digits, items |-> <<>>]
JList(texts) == [t |-> "list", s |-> <<>>, items |-> texts]

\* Python truth value of a decoded JSON value
Truthy(v) ==
    CASE v.t = "null" -> FALSE
      [] v.t = "str" -> v.s # <<>>
      [] v.t = "num" -> v.s # <<"0">>
      [] v.t = "list" -> v.items # <<>>

VALID == <<"V","A","L","I","D">>
INVALID == <<"I","N","V","A","L","I","D">>
AI_OFFLINE == <<"A","I","_","O","F","F","L","I","N","E">>
MAYBE == <<"M","A","Y","B","E">>
ParseFailureReason == <<"A","I"," ","r","e","s","p","o","n","s","e"," ","c","o","u","l","d"," ","n","o","t"," ","b","e"," ","p","a","r","s","e","d"," ","s","a","f","e","l","y",".">>
ModelReason == <<"N","o","t"," ","a","n","s","w","e","r","a","b","l","e">>
Insight == <<"S","a","l","e","s"," ","v","a","r","y">>

\* The raw reply is a sequence of tokens: prose (text without braces), an
\* opening brace, a closing brace, or one "key": value member of an object.
Prose == [tok |-> "prose", key |-> "", val |-> JNull]
LBrace == [tok |-> "lbrace", key |-> "", val |-> JNull]
RBrace == [tok |-> "rbrace", key |-> "", val |-> JNull]
Member(k, v) == [tok |-> "member", key |-> k, val |-> v]

\* re.search(r"\{.*\}", raw, re.DOTALL): from the first opening brace to the
\* last closing brace after it; <<>> when there is no match
BraceSpan(raw) ==
    LET opens == { i \in 1..Len(raw) : raw[i].tok = "lbrace" }
    IN  IF opens = {} THEN <<>>
        ELSE LET a == CHOOSE i \in opens : \A j \in opens : i <= j
                 closes == { i \in (a + 1)..Len(raw) : raw[i].tok = "rbrace" }
             IN  IF closes = {} THEN <<>>
                 ELSE LET b == CHOOSE i \in closes : \A j \in closes : i >= j
                      IN  SubSeq(raw, a, b)

\* json.loads accepts the span: one object whose content is members only
Decodable(span) ==
    /\ Len(span) >= 2
    /\ span[1].tok = "lbrace"
    /\ span[Len(span)].tok = "rbrace"
    /\ \A i \in 2..(Len(span) - 1) : span[i].tok = "member"

\* json.loads(span): the dict of the members, a repeated key keeping its
\* last value
Decode(span) ==
    LET idx == 2..(Len(span) - 1)
        keys == { span[i].key : i \in idx }
    IN  [k \in keys |->
            span[CHOOSE i \in idx : span[i].key = k /\ \A j \in idx : span[j].key = k => j <= i].val]

\* dict.get(key): the value, None when the key is absent
Get(d, k) == IF k \in DOMAIN d THEN d[k] ELSE JNull

\* ------------------------------------------------------------------------
\* AI CORE
\* ------------------------------------------------------------------------
AI_MODE == "ONLINE"

OfflineEnvelope == [k \in {"status"} |-> JStr(AI_OFFLINE)]

UnparsableEnvelope ==
    [k \in {"status", "reason", "code", "insights"} |->
        CASE k = "status" -> JStr(INVALID)
          [] k = "reason" -> JStr(ParseFailureReason)
          [] k = "code" -> JNull
          [] k = "insights" -> JNull]

\* The collaborator's behaviour on one request r: r.kind is "quota"
\* (ResourceExhausted), "transport" (any other exception of the call) or
\* "text" (response.text is r.raw).
\* ask_gemini raises on an empty text.
AskGeminiRaises(r) ==
    r.kind # "text" \/ r.raw = <<>>

\* the try block of analyze_with_ai on a raw text
ParseReply(raw, columns) ==
    LET span == BraceSpan(raw)
    IN  IF span = <<>> THEN UnparsableEnvelope
        ELSE IF ~Decodable(span) THEN UnparsableEnvelope
        ELSE LET data == Decode(span)
             IN  IF Truthy(Get(data, "code"))
                 THEN IF data["code"].t # "str" THEN UnparsableEnvelope
                      ELSE [data EXCEPT !["code"] =
                               JStr(sanitize_generated_code(data["code"].s, columns))]
                 ELSE data

\* analyze_with_ai treating every failure as unavailability
analyze_with_ai_all_offline(d, query, r) ==
    IF AI_MODE = "OFFLINE" THEN OfflineEnvelope
    ELSE IF AskGeminiRaises(r) THEN OfflineEnvelope
    ELSE IF BraceSpan(r.raw) = <<>> \/ ~Decodable(BraceSpan(r.raw)) THEN OfflineEnvelope
    ELSE ParseReply(r.raw, ColumnList(d))

analyze_with_ai(d, query, r) ==
    IF AI_MODE = "OFFLINE" THEN OfflineEnvelope
    ELSE IF r.kind = "quota" THEN OfflineEnvelope
    ELSE IF AskGeminiRaises(r) THEN UnparsableEnvelope
    ELSE ParseReply(r.raw, ColumnList(d))

\* ------------------------------------------------------------------------
\* SAFE EXECUTION
\* ------------------------------------------------------------------------
None == "None"

Module == [kind |-> "module", columns |-> <<>>]

\* safe_env
SafeEnv(d) ==
    [n \in {"df", "pd", "px", "go", "make_subplots"} |->
        IF n = "df" THEN [kind |-> "DataFrame", columns |-> d.columns] ELSE Module]

\* exec(code, {}, safe_env): the namespace afterwards, the names the code
\* resolved, and the exception raised ("none", "Exception" for any subclass
\* of Exception, "SystemExit" for one that is not)
ExecCode(code, d) ==
    IF code.t # "str"
    THEN [env |-> SafeEnv(d), reached |-> {}, exc |-> "Exception"]
    ELSE IF ~CompileOK(code.s)
    THEN [env |-> SafeEnv(d), reached |-> {}, exc |-> "Exception"]
    ELSE RunStatements(Compile(code.s), SafeEnv(d), ExecGlobals({}), {})

\* isinstance(safe_env.get(name), type)
BoundAs(env, name, kind) == name \in DOMAIN env /\ env[name].kind = kind

\* execute_analysis_code(code, df): raised is the exception that leaves the
\* function ("none" when it returns (output, error))
execute_analysis_code(code, d) ==
    LET run == ExecCode(code, d)
    IN  IF run.exc = "Exception"
        THEN [output |-> None, error |-> "Execution error", raised |-> "none",
              env |-> run.env, reached |-> run.reached]
        ELSE IF run.exc # "none"
        THEN [output |-> None, error |-> None, raised |-> run.exc,
              env |-> run.env, reached |-> run.reached]
        ELSE IF BoundAs(run.env, "fig", "Figure")
        THEN [output |-> "Figure", error |-> None, raised |-> "none",
              env |-> run.env, reached |-> run.reached]
        ELSE IF BoundAs(run.env, "result_df", "DataFrame")
        THEN [output |-> "DataFrame", error |-> None, raised |-> "none",
              env |-> run.env, reached |-> run.reached]
        ELSE [output |-> None, error |-> "No valid output produced", raised |-> "none",
              env |-> run.env, reached |-> run.reached]

\* ------------------------------------------------------------------------
\* OFFLINE FALLBACK
\* ------------------------------------------------------------------------
\* what run_offline_analysis(df) displays
run_offline_analysis(d) ==
    IF d.numeric = {} THEN <<"subheader: Offline Analytics Mode", "info: No numeric columns">>
    ELSE <<"subheader: Offline Analytics Mode", "plotly_chart: Correlation Matrix">>
         \o (IF \E k \in 1..Len(d.columns) : d.columns[k] \in d.dated
             THEN [i \in 1..Cardinality(d.numeric) |-> "plotly_chart: Trend Over Time"]
             ELSE <<>>)

\* ------------------------------------------------------------------------
\* Inputs
\* ------------------------------------------------------------------------
\* the texts made of at most n pieces of a vocabulary
Texts(words, n) == { Flatten(ws) : ws \in SeqUpTo(words, n) }

QueryWords ==
    { <<"I","g","n","o","r","e"," ">>, <<"a","l","l">>, <<" ","i","n","s","t","r","u","c","t","i","o","n","s">>, <<"I","M","P","O","R","T">>, <<" ">>, <<"\n">>, <<"_">>, <<"O","p","e","n","(">>, <<"s","a","l","e","s">> }

\* questions typed when the guard is examined
GuardQueries == Texts(QueryWords, MaxWords)

\* questions typed when the rest of the pipeline is examined: a blank one, a
\* rejected one and an accepted one
PipelineQueries == { <<" ">>, <<"O","p","e","n","(">>, <<"s","a","l","e","s">> }

\* generated programs of 1..MaxStmts statements
Programs == { JoinLines(ls) : ls \in (SeqUpTo(SourceLines, MaxStmts) \ {<<>>}) }

StatusMembers ==
    { <<>>, <<Member("status", JStr(VALID))>>, <<Member("status", JStr(INVALID))>>,
      <<Member("status", JStr(MAYBE))>> }
ReasonMembers == { <<>>, <<Member("reason", JStr(ModelReason))>> }
CodeMembers ==
    { <<>>, <<Member("code", JNull)>>, <<Member("code", JNum(<<"5">>))>> }
      \cup { <<Member("code", JStr(p))>> : p \in Programs }
InsightsMembers ==
    { <<>>, <<Member("insights", JList(<<Insight>>))>>, <<Member("insights", JNum(<<"5">>))>> }

\* the JSON objects the model may write
Objects ==
    { <<LBrace>> \o st \o re \o co \o ins \o <<RBrace>> :
        st \in StatusMembers, re \in ReasonMembers, co \in CodeMembers, ins \in InsightsMembers }

ChartObject ==
    <<LBrace, Member("status", JStr(VALID)), Member("code", JStr(SrcChartQuoted)),
      Member("insights", JList(<<Insight>>)), RBrace>>

\* raw texts: an object alone, empty text, prose alone, an object inside
\* prose, an unterminated object, and two objects
RawTexts ==
    Objects \cup
    { <<>>, <<Prose>>, <<Prose>> \o ChartObject \o <<Prose>>,
      <<LBrace, Member("status", JStr(VALID))>>,
      ChartObject \o <<Prose>> \o ChartObject }

TextReply(raw) == [kind |-> "text", raw |-> raw]
QuotaReply == [kind |-> "quota", raw |-> <<>>]
TransportReply == [kind |-> "transport", raw |-> <<>>]

Replies == { QuotaReply, TransportReply } \cup { TextReply(r) : r \in RawTexts }

GuardReplies == { QuotaReply, TextReply(ChartObject), TextReply(<<Prose>>) }

\* Code texts given to the sanitizer alone: an assignment of an expression
\* that is a bare name, a quoted name, a list of names, or a df[...] access
\* to such an expression (plain, padded with spaces, or compared), nested
\* to depth MaxDepth.
Atoms == { Revenue, <<"B">>, <<"'","R","e","v","e","n","u","e","'">>, <<"[","R","e","v","e","n","u","e",","," ","B","]">> }

RECURSIVE Exprs(_)
Exprs(n) ==
    IF n = 0 THEN Atoms
    ELSE LET E == Exprs(n - 1)
         IN  E \cup { DfOpen \o e \o <<"]">> : e \in E }
               \cup { DfOpen \o <<" ">> \o e \o <<" ", "]">> : e \in E }
               \cup { DfOpen \o e \o <<">", "0", "]">> : e \in E }

CodeTexts == { <<"x", "=">> \o e : e \in Exprs(MaxDepth) }
ColumnLists == { <<>>, <<Revenue>>, <<Sales, Revenue>> }

\* ------------------------------------------------------------------------
\* State
\* ------------------------------------------------------------------------
VARIABLES
    df,          \* the uploaded dataset
    user_query,  \* the text area
    pc,          \* position of the script run started by the Analyze button
    reply,       \* what the model collaborator answered to this run's request
    result,      \* result of analyze_with_ai
    run,         \* what execute_analysis_code returned or raised
    shown,       \* elements displayed by this run, in order
    calls,       \* components called by this run, in order
    fault,       \* exception that ended this run unhandled, "none" otherwise
    san_cols,    \* sanitizer alone: the known columns
    san_prev,    \* sanitizer alone: the text before the last application
    san_cur,     \* sanitizer alone: the current text
    san_passes   \* sanitizer alone: number of applications so far

vars == <<df, user_query, pc, reply, result, run, shown, calls, fault,
          san_cols, san_prev, san_cur, san_passes>>
appVars == <<df, user_query, pc, reply, result, run, shown, calls, fault>>
sanVars == <<san_cols, san_prev, san_cur, san_passes>>

NoReply == [kind |-> "none", raw |-> <<>>]
NoResult == [k \in {} |-> JNull]
NoRun ==
    [output |-> None, error |-> None, raised |-> "none",
     env |-> [n \in {} |-> Module], reached |-> {}]

Init ==
    /\ df \in Datasets
    /\ user_query = <<>>
    /\ pc = "idle"
    /\ reply = NoReply
    /\ result = NoResult
    /\ run = NoRun
    /\ shown = <<>>
    /\ calls = <<>>
    /\ fault = "none"
    /\ san_cols = <<>>
    /\ san_prev = <<>>
    /\ san_cur = <<>>
    /\ san_passes = 0

Ended == {"stopped", "done", "crashed"}

\* ------------------------------------------------------------------------
\* The Analyze button handler
\* ------------------------------------------------------------------------
\* st.button("Analyze") with q in the text area: the blank check and the
\* guard. Every click runs the script from the top and nothing is kept from
\* one run to the next, so a behaviour is one run.
ClickAnalyze(q) ==
    /\ pc = "idle"
    /\ user_query' = q
    /\ IF IsBlank(q)
       THEN shown' = <<"warning: Enter a question">> /\ pc' = "stopped"
       ELSE IF is_prompt_injection(q)
       THEN shown' = <<"error: Unsafe query detected">> /\ pc' = "stopped"
       ELSE shown' = <<>> /\ pc' = "analyzing"
    /\ UNCHANGED <<df, reply, result, run, calls, fault>>
    /\ UNCHANGED sanVars

\* result = analyze_with_ai(df, user_query), the model answering with r
AnalyzeWithAI(r) ==
    /\ pc = "analyzing"
    /\ calls' = IF AI_MODE = "OFFLINE" THEN calls ELSE Append(calls, "ask_gemini")
    /\ reply' = IF AI_MODE = "OFFLINE" THEN reply ELSE r
    /\ result' = analyze_with_ai(df, user_query, r)
    /\ pc' = "dispatch"
    /\ UNCHANGED <<df, user_query, run, shown, fault>>
    /\ UNCHANGED sanVars

\* the two status tests that follow the call
Dispatch ==
    /\ pc = "dispatch"
    /\ IF "status" \notin DOMAIN result
       THEN /\ fault' = "KeyError"
            /\ pc' = "crashed"
            /\ UNCHANGED <<shown, calls>>
       ELSE IF result["status"] = JStr(AI_OFFLINE)
       THEN /\ shown' = shown \o <<"warning: AI unavailable">> \o run_offline_analysis(df)
            /\ calls' = Append(calls, "run_offline_analysis")
            /\ pc' = "stopped"
            /\ UNCHANGED fault
       ELSE IF result["status"] = JStr(INVALID)
       THEN IF "reason" \notin DOMAIN result
            THEN /\ shown' = shown \o <<"error: Invalid question">>
                 /\ fault' = "KeyError"
                 /\ pc' = "crashed"
                 /\ UNCHANGED calls
            ELSE /\ shown' = shown \o <<"error: Invalid question", "write: reason">>
                 /\ pc' = "stopped"
                 /\ UNCHANGED <<fault, calls>>
       ELSE /\ shown' = shown \o <<"success: Question validated">>
            /\ pc' = "execute"
            /\ UNCHANGED <<fault, calls>>
    /\ UNCHANGED <<df, user_query, reply, result, run>>
    /\ UNCHANGED sanVars

\* output, error = execute_analysis_code(result["code"], df)
Execute ==
    /\ pc = "execute"
    /\ IF "code" \notin DOMAIN result
       THEN /\ fault' = "KeyError"
            /\ pc' = "crashed"
            /\ UNCHANGED <<run, calls>>
       ELSE /\ calls' = Append(calls, "execute_analysis_code")
            /\ run' = execute_analysis_code(result["code"], df)
            /\ IF run'.raised # "none"
               THEN fault' = run'.raised /\ pc' = "crashed"
               ELSE fault' = fault /\ pc' = "render"
    /\ UNCHANGED <<df, user_query, reply, result, shown>>
    /\ UNCHANGED sanVars

\* the display of the error or of the output, the insights and the code
Render ==
    /\ pc = "render"
    /\ IF run.error # None
       THEN /\ shown' = shown \o <<"error: Analysis failed", "code", "write: error">>
            /\ pc' = "stopped"
            /\ UNCHANGED fault
       ELSE LET artifact ==
                    IF run.output = "DataFrame" THEN <<"dataframe">>
                    ELSE IF run.output = "Figure" THEN <<"plotly_chart">>
                    ELSE <<"warning: could not be rendered">>
                ins == Get(result, "insights")
            IN  IF ~Truthy(ins)
                THEN /\ shown' = shown \o artifact \o <<"expander: code">>
                     /\ pc' = "done"
                     /\ UNCHANGED fault
                ELSE IF ins.t = "num"
                THEN /\ shown' = shown \o artifact \o <<"markdown: Key Insights">>
                     /\ fault' = "TypeError"
                     /\ pc' = "crashed"
                ELSE /\ shown' = shown \o artifact \o <<"markdown: Key Insights", "write: insights">>
                                 \o <<"expander: code">>
                     /\ pc' = "done"
                     /\ UNCHANGED fault
    /\ UNCHANGED <<df, user_query, reply, result, run, calls>>
    /\ UNCHANGED sanVars

\* the handler examined with the guard's questions
NextGuard ==
    \/ \E q \in GuardQueries : ClickAnalyze(q)
    \/ \E r \in GuardReplies : AnalyzeWithAI(r)
    \/ Dispatch
    \/ Execute
    \/ Render

SpecGuard == Init /\ [][NextGuard]_vars

Next ==
    \/ \E q \in PipelineQueries : ClickAnalyze(q)
    \/ \E r \in Replies : AnalyzeWithAI(r)
    \/ Dispatch
    \/ Execute
    \/ Render

Spec == Init /\ [][Next]_vars

\* ------------------------------------------------------------------------
\* The sanitizer alone
\* ------------------------------------------------------------------------
InitSan ==
    /\ df \in {d \in Datasets : d.columns = <<Sales, Revenue>>}
    /\ user_query = <<>>
    /\ pc = "idle"
    /\ reply = NoReply
    /\ result = NoResult
    /\ run = NoRun
    /\ shown = <<>>
    /\ calls = <<>>
    /\ fault = "none"
    /\ san_cols \in ColumnLists
    /\ san_cur \in CodeTexts
    /\ san_prev = san_cur
    /\ san_passes = 0

\* code = sanitize_generated_code(code, columns)
Sanitize ==
    /\ san_passes < MaxPasses
    /\ san_prev' = san_cur
    /\ san_cur' = sanitize_generated_code(san_cur, san_cols)
    /\ san_passes' = san_passes + 1
    /\ UNCHANGED san_cols
    /\ UNCHANGED appVars

NextSan == Sanitize

SpecSan == InitSan /\ [][NextSan]_vars

\* ------------------------------------------------------------------------
\* Properties
\* ------------------------------------------------------------------------
Called(c) == \E i \in 1..Len(calls) : calls[i] = c
Shows(item) == \E i \in 1..Len(shown) : shown[i] = item

\* the query matches some pattern, case-insensitively
MatchesGuard(q) ==
    \E n \in 1..Len(INJECTION_PATTERNS) : re_search(INJECTION_PATTERNS[n], lower(q))

\* C1: once Analyze was clicked with a non-blank question matching a guard
\* pattern (case-insensitively), the run has stopped showing only the
\* rejection notice, and it never calls ask_gemini, the offline analysis or
\* the executor.
C1_GuardShortCircuits ==
    (pc # "idle" /\ ~IsBlank(user_query) /\ MatchesGuard(user_query)) =>
        /\ pc = "stopped"
        /\ shown = <<"error: Unsafe query detected">>
        /\ calls = <<>>
        /\ reply = NoReply
        /\ run = NoRun

\* a question in upper case with a newline after the keyword was rejected
C1_Witness ==
    /\ pc = "stopped"
    /\ user_query = <<"I","M","P","O","R","T","\n">>
    /\ shown = <<"error: Unsafe query detected">>

\* the model call failed, or its raw text holds no decodable JSON object
CallFailed(r) == r.kind \in {"quota", "transport"} \/ (r.kind = "text" /\ r.raw = <<>>)
Undecodable(r) ==
    r.kind = "text" /\ r.raw # <<>> /\ (BraceSpan(r.raw) = <<>> \/ ~Decodable(BraceSpan(r.raw)))

RejectionShown == shown = <<"error: Unsafe query detected">>
OfflineShown ==
    Len(shown) >= 2 /\ shown[1] = "warning: AI unavailable"
        /\ shown[2] = "subheader: Offline Analytics Mode"
InvalidShown == shown = <<"error: Invalid question", "write: reason">>
ExecErrorShown ==
    shown = <<"success: Question validated", "error: Analysis failed", "code", "write: error">>
SuccessShown ==
    /\ Len(shown) >= 3
    /\ shown[1] = "success: Question validated"
    /\ shown[2] \in {"dataframe", "plotly_chart"}
    /\ shown[Len(shown)] = "expander: code"

\* C3: a run on a non-blank question ends with exactly one of the five
\* presentations and without an unhandled fault.
C3_ExactlyOneOutcomeNoFault ==
    (pc \in Ended /\ ~IsBlank(user_query)) =>
        /\ fault = "none"
        /\ Cardinality({ k \in 1..5 :
                CASE k = 1 -> RejectionShown
                  [] k = 2 -> OfflineShown
                  [] k = 3 -> InvalidShown
                  [] k = 4 -> ExecErrorShown
                  [] k = 5 -> SuccessShown }) = 1

\* C4: the envelope analyze_with_ai returned has a non-null code exactly
\* when its status is VALID.
C4_CodeIffValid ==
    (pc \in ({"dispatch", "execute", "render"} \cup Ended) /\ reply # NoReply) =>
        ((Get(result, "code") # JNull) <=> (Get(result, "status") = JStr(VALID)))

\* C5: the executor is called only for an envelope of status VALID, and an
\* envelope marked INVALID that states a reason ends with the reason shown
\* and no execution.
C5_ExecuteOnlyWhenValid ==
    /\ Called("execute_analysis_code") => Get(result, "status") = JStr(VALID)
    /\ (pc \in Ended /\ reply # NoReply /\ Get(result, "status") = JStr(INVALID)
            /\ "reason" \in DOMAIN result) =>
            (Shows("write: reason") /\ ~Called("execute_analysis_code"))

\* the code ran to its end
RanToEnd == Called("execute_analysis_code") /\ run.raised = "none" /\ run.error # "Execution error"
ChartBound == BoundAs(run.env, "fig", "Figure")
TableBound == BoundAs(run.env, "result_df", "DataFrame")

\* C6: the executor returns an artifact only when exactly one of fig (a
\* chart) and result_df (a table) is bound; with both or neither bound it
\* returns no artifact and 'No valid output produced'.
C6_ExactlyOneBinding ==
    RanToEnd =>
        /\ run.output # None => (ChartBound # TableBound)
        /\ (ChartBound = TableBound) =>
              (run.output = None /\ run.error = "No valid output produced")

Allowlist == {"df", "pd", "px", "go", "make_subplots"}

\* C7: every name the executed code resolved is one of the allowlisted names
\* or a name the code bound itself.
C7_OnlyAllowlistedNames ==
    Called("execute_analysis_code") =>
        /\ run.reached \subseteq (Allowlist \cup DOMAIN run.env)
        /\ Allowlist \subseteq DOMAIN run.env

\* C8: the executor returns to its caller whatever the code is or raises,
\* and a fault gives (None, message).
C8_NeverRaises ==
    Called("execute_analysis_code") =>
        /\ run.raised = "none"
        /\ (run.output = None) # (run.error = None)

\* position i of text s starts an access df[ not followed by a quote
UnquotedAccessAt(s, i) ==
    LitAt(s, i, DfOpen) /\ ~(i + 3 <= Len(s) /\ s[i + 3] \in {"'", "\""})

\* C9: in the sanitizer's output every df[ is immediately followed by a
\* quote character.
C9_NoUnquotedAccess ==
    san_passes >= 1 => \A i \in 1..Len(san_cur) : ~UnquotedAccessAt(san_cur, i)

\* C10: sanitizing the sanitizer's output gives the same text.
C10_Idempotent ==
    san_passes >= 2 => san_cur = san_prev

====
